---- MODULE Spec2Model ----
(***************************************************************************)
(* A model of metarProcessing.py: the record segmenter (getNextRecord),    *)
(* the sequential group decoder (decodeMetar) with its grammar table and   *)
(* group handlers, and the VMC minima classifier (vmcMinima).              *)
(*                                                                         *)
(* Strings are sequences of one-character strings.  Regular expressions    *)
(* are syntax trees matched by a backtracking matcher that lists the       *)
(* matches in the priority order of Python's re module; the first one is   *)
(* the match Python reports.                                               *)
(***************************************************************************)
EXTENDS Integers, Sequences, FiniteSets, TLC

\* ------------------------------------------------------------------ bounds
MaxLines == 3
MaxTokens == 3
MaxVmcTokens == 3

\* ------------------------------------------------------- character classes
Digit == {"0", "1", "2", "3", "4", "5", "6", "7", "8", "9"}
Upper == {"A", "B", "C", "D", "E", "F", "G", "H", "I", "J", "K", "L", "M",
          "N", "O", "P", "Q", "R", "S", "T", "U", "V", "W", "X", "Y", "Z"}
\* \s, \d and \w over the characters the model's inputs are written in
WS == {" ", "\t", "\n"}
WordCh == Digit \cup Upper \cup {"_"}

\* ------------------------------------------------------ regex syntax trees
Set(cs) == [t |-> "set", cs |-> cs]
Lit(ch) == [t |-> "set", cs |-> {ch}]
NotSet(cs) == [t |-> "not", cs |-> cs]
Cat(rs) == [t |-> "seq", rs |-> rs]
Alt(rs) == [t |-> "alt", rs |-> rs]
Rep(r, lo, hi) == [t |-> "rep", r |-> r, lo |-> lo, hi |-> hi, unb |-> FALSE]
Star(r) == [t |-> "rep", r |-> r, lo |-> 0, hi |-> 0, unb |-> TRUE]
Plus(r) == [t |-> "rep", r |-> r, lo |-> 1, hi |-> 0, unb |-> TRUE]
Opt(r) == [t |-> "rep", r |-> r, lo |-> 0, hi |-> 1, unb |-> FALSE]
Grp(name, r) == [t |-> "grp", name |-> name, r |-> r]
Eol == [t |-> "eol"]
Str(w) == [t |-> "seq", rs |-> [i \in 1..Len(w) |-> Lit(w[i])]]
Words(ws) == [t |-> "alt", rs |-> [i \in 1..Len(ws) |-> Str(ws[i])]]

\* ------------------------------------------------- the backtracking matcher
NoCaps == [x \in {} |-> <<>>]
Res(e, c) == [e |-> e, c |-> c]

RECURSIVE Match(_, _, _, _)
RECURSIVE MatchSeq(_, _, _, _, _)
RECURSIVE BindSeq(_, _, _, _, _)
RECURSIVE MatchAlt(_, _, _, _, _)
RECURSIVE MatchRep(_, _, _, _, _)
RECURSIVE BindRep(_, _, _, _, _, _)

\* Every way r matches s from index p (1-based), best first: the index after
\* the match and the groups captured on the way.
Match(r, s, p, c) ==
    CASE r.t = "set" ->
           IF p <= Len(s) /\ s[p] \in r.cs THEN <<Res(p + 1, c)>> ELSE <<>>
      [] r.t = "not" ->
           IF p <= Len(s) /\ s[p] \notin r.cs THEN <<Res(p + 1, c)>> ELSE <<>>
      [] r.t = "seq" -> MatchSeq(r.rs, 1, s, p, c)
      [] r.t = "alt" -> MatchAlt(r.rs, 1, s, p, c)
      [] r.t = "rep" -> MatchRep(r, 0, s, p, c)
      [] r.t = "grp" ->
           LET got == Match(r.r, s, p, c)
           IN  [i \in 1..Len(got) |->
                  Res(got[i].e, (r.name :> SubSeq(s, p, got[i].e - 1)) @@ got[i].c)]
      [] r.t = "eol" ->
           IF p = Len(s) + 1 \/ (p = Len(s) /\ s[p] = "\n")
           THEN <<Res(p, c)>> ELSE <<>>

MatchSeq(rs, i, s, p, c) ==
    IF i > Len(rs) THEN <<Res(p, c)>>
    ELSE BindSeq(Match(rs[i], s, p, c), 1, rs, i + 1, s)

BindSeq(got, k, rs, i, s) ==
    IF k > Len(got) THEN <<>>
    ELSE MatchSeq(rs, i, s, got[k].e, got[k].c) \o BindSeq(got, k + 1, rs, i, s)

MatchAlt(rs, i, s, p, c) ==
    IF i > Len(rs) THEN <<>>
    ELSE Match(rs[i], s, p, c) \o MatchAlt(rs, i + 1, s, p, c)

\* greedy repetition: one more round first, stopping here last
MatchRep(r, n, s, p, c) ==
    LET more == IF r.unb \/ n < r.hi
                THEN BindRep(Match(r.r, s, p, c), 1, r, n + 1, s, p)
                ELSE <<>>
        stop == IF n >= r.lo THEN <<Res(p, c)>> ELSE <<>>
    IN  more \o stop

BindRep(got, k, r, n, s, p0) ==
    IF k > Len(got) THEN <<>>
    ELSE (IF got[k].e > p0 THEN MatchRep(r, n, s, got[k].e, got[k].c) ELSE <<>>)
         \o BindRep(got, k + 1, r, n, s, p0)

\* A match object: start and end are Python's 0-based offsets.
NoMatch == [ok |-> FALSE, start |-> 0, end |-> 0, groups |-> NoCaps]

\* pattern.match(s, pos): anchored at pos
ReMatch(r, s, pos) ==
    LET got == Match(r, s, pos + 1, NoCaps)
    IN  IF got = <<>> THEN NoMatch
        ELSE [ok |-> TRUE, start |-> pos, end |-> got[1].e - 1, groups |-> got[1].c]

RECURSIVE ReSearchFrom(_, _, _)
\* pattern.search(s, pos): the leftmost position with a match
ReSearchFrom(r, s, pos) ==
    IF pos > Len(s) THEN NoMatch
    ELSE LET d == ReMatch(r, s, pos)
         IN  IF d.ok THEN d ELSE ReSearchFrom(r, s, pos + 1)

ReSearch(r, s) == ReSearchFrom(r, s, 0)

\* d['name']: the captured text, None for a group that took no part
None == <<"None">>
Group(d, name) == IF name \in DOMAIN d.groups THEN d.groups[name] ELSE None
Truthy(v) == v # None /\ v # <<>>

\* ======================================================= record segmenter
\* self.startProg, self.endProg, self.typeProg
startProg == Cat(<<Star(Set(WS)), Rep(Set(Digit), 12, 12)>>)
endProg == Cat(<<Star(NotSet({"\n"})), Lit("="), Star(Set(WS)), Eol>>)
typeProg == Cat(<<Set(WS), Str(<<"T", "A", "F">>), Set(WS)>>)

isRecordStart(ln) == ReMatch(startProg, ln, 0).ok
isRecordEnd(ln) == ReMatch(endProg, ln, 0).ok
isTAFRecord(ln) == ReSearch(typeProg, ln).ok

RECURSIVE RStrip(_, _)
\* str.rstrip(chars)
RStrip(s, cs) ==
    IF s # <<>> /\ s[Len(s)] \in cs THEN RStrip(SubSeq(s, 1, Len(s) - 1), cs) ELSE s

\* the characters of rstrip('=\n ')
RecordStripChars == {"=", "\n", " "}

\* self.f.readline(): the next line, "" at the end of the file
ReadLineText(lines, p) == IF p < Len(lines) THEN lines[p + 1] ELSE <<>>
ReadLinePos(lines, p) == IF p < Len(lines) THEN p + 1 ELSE p

\* the first loop of getNextRecord gives up on this line
SeekGivesUp(ln) == ln = <<>> \/ isTAFRecord(ln)
\* (mutant) the second loop without its end-of-file test
AccumStopsOnEndOnly(ln) == isRecordEnd(ln)
\* the second loop of getNextRecord stops after this line
AccumStops(ln) == isRecordEnd(ln) \/ ln = <<>>

\* ---- the lines a bulletin file is made of
D12 == <<"2", "0", "1", "9", "0", "1", "0", "1", "0", "0", "0", "0">>
LineStart == <<" ">> \o D12 \o <<" ", "M", "\n">>
LineStartEnd == D12 \o <<" ", "M", "=", "\n">>
LineStartEndTab == D12 \o <<"=", "\t", "\n">>
LineShort == SubSeq(D12, 1, 11) \o <<"\n">>
LineCont == <<"X", "\n">>
LineEnd == <<"X", "=", " ", "\n">>
LineTaf == <<"F", " ", "T", "A", "F", " ", "X", "\n">>
LineBlank == <<"\n">>
LineNoNl == <<"X">>
\* every line of a file ends with a newline, except perhaps the last
FullLines == {LineStart, LineStartEnd, LineStartEndTab, LineShort, LineCont,
              LineEnd, LineTaf, LineBlank}
LastLines == FullLines \cup {LineNoNl}
Files == UNION {{body \o <<lst>> : body \in [1..(n - 1) -> FullLines], lst \in LastLines} :
                n \in 1..MaxLines} \cup {<<>>}

VARIABLES fileLines, filePos, line, curRecord, spc, ret, callFrom, startIdx, ncalls,
          metarStr, igroup, pos, message, errorMsg, dpc, tried,
          vmcStr, verdict

segVars == <<fileLines, filePos, line, curRecord, spc, ret, callFrom, startIdx, ncalls>>
decVars == <<metarStr, igroup, pos, message, errorMsg, dpc, tried>>
vmcVars == <<vmcStr, verdict>>
vars == <<segVars, decVars, vmcVars>>

\* the components a specification leaves alone
SegIdle ==
    /\ fileLines = <<>> /\ filePos = 0 /\ line = <<>> /\ curRecord = <<>>
    /\ spc = "off" /\ ret = <<>> /\ callFrom = 0 /\ startIdx = 0 /\ ncalls = 0
DecIdle ==
    /\ metarStr = <<>> /\ igroup = 0 /\ pos = 0 /\ message = NoCaps
    /\ errorMsg = <<>> /\ dpc = "off" /\ tried = <<>>
VmcIdle == vmcStr = <<>> /\ verdict = "off"

\* decodeFileMetar has opened a file and is at the top of its loop. spc is
\* where the reader stands: "idle" before a call of getNextRecord, "seek" and
\* "accum" in its two loops, "closed" once decodeFileMetar has left its loop.
\* callFrom, startIdx and ncalls record the file position at the call, the
\* index of the start line found, and the number of calls.
InitSeg ==
    /\ fileLines \in Files
    /\ filePos = 0 /\ line = <<>> /\ curRecord = <<>>
    /\ spc = "idle" /\ ret = <<>> /\ callFrom = 0 /\ startIdx = 0 /\ ncalls = 0
    /\ DecIdle /\ VmcIdle

\* metar = self.getNextRecord(): self.curRecord = ""
GetNextRecord_Call ==
    /\ spc = "idle"
    /\ curRecord' = <<>>
    /\ spc' = "seek"
    /\ callFrom' = filePos
    /\ startIdx' = 0
    /\ ncalls' = ncalls + 1
    /\ UNCHANGED <<fileLines, filePos, line, ret, decVars, vmcVars>>

\* first loop: the line read is a record start
Seek_Found ==
    /\ spc = "seek"
    /\ LET ln == ReadLineText(fileLines, filePos)
       IN  /\ isRecordStart(ln)
           /\ line' = ln
    /\ filePos' = ReadLinePos(fileLines, filePos)
    /\ startIdx' = filePos'
    /\ spc' = "accum"
    /\ UNCHANGED <<fileLines, curRecord, ret, callFrom, ncalls, decVars, vmcVars>>

\* first loop: end of the file or a TAF line, return ""; the caller's
\* "if not metar: break" then leaves the loop and closes the file
Seek_GiveUp ==
    /\ spc = "seek"
    /\ LET ln == ReadLineText(fileLines, filePos)
       IN  /\ ~isRecordStart(ln)
           /\ SeekGivesUp(ln)
           /\ line' = ln
    /\ filePos' = ReadLinePos(fileLines, filePos)
    /\ ret' = <<>>
    /\ spc' = "closed"
    /\ UNCHANGED <<fileLines, curRecord, callFrom, startIdx, ncalls, decVars, vmcVars>>

\* first loop: any other line, read on
Seek_Next ==
    /\ spc = "seek"
    /\ LET ln == ReadLineText(fileLines, filePos)
       IN  /\ ~isRecordStart(ln)
           /\ ~SeekGivesUp(ln)
           /\ line' = ln
    /\ filePos' = ReadLinePos(fileLines, filePos)
    /\ UNCHANGED <<fileLines, curRecord, spc, ret, callFrom, startIdx, ncalls, decVars, vmcVars>>

\* second loop: the line is appended and ends the record; the stripped
\* buffer is returned, and an empty one makes the caller leave its loop
Accum_Stop ==
    /\ spc = "accum"
    /\ AccumStops(line)
    /\ curRecord' = curRecord \o line
    /\ ret' = RStrip(curRecord', RecordStripChars)
    /\ spc' = IF ret' = <<>> THEN "closed" ELSE "idle"
    /\ UNCHANGED <<fileLines, filePos, line, callFrom, startIdx, ncalls, decVars, vmcVars>>

\* second loop: the line is appended and the next one read
Accum_Next ==
    /\ spc = "accum"
    /\ ~AccumStops(line)
    /\ curRecord' = curRecord \o line
    /\ line' = ReadLineText(fileLines, filePos)
    /\ filePos' = ReadLinePos(fileLines, filePos)
    /\ UNCHANGED <<fileLines, spc, ret, callFrom, startIdx, ncalls, decVars, vmcVars>>

NextSeg ==
    \/ GetNextRecord_Call
    \/ Seek_Found
    \/ Seek_GiveUp
    \/ Seek_Next
    \/ Accum_Stop
    \/ Accum_Next

SegSpec == InitSeg /\ [][NextSeg]_vars

\* ------------------------------------------- segmenter: what the claims say
\* a line that begins, after leading whitespace, with twelve decimal digits
LeadingWs(ln) ==
    CHOOSE k \in 0..Len(ln) :
        /\ \A i \in 1..k : ln[i] \in WS
        /\ k = Len(ln) \/ ln[k + 1] \notin WS
TwelveDigitStart(ln) ==
    LET k == LeadingWs(ln)
    IN  Len(ln) >= k + 12 /\ \A i \in (k + 1)..(k + 12) : ln[i] \in Digit
\* a line that ends, possibly after trailing whitespace, with an equals sign
EndsWithEquals(ln) ==
    LET body == RStrip(ln, WS) IN body # <<>> /\ body[Len(body)] = "="
RECURSIVE ConcatLines(_, _, _)
ConcatLines(lines, a, b) ==
    IF a > b THEN <<>> ELSE lines[a] \o ConcatLines(lines, a + 1, b)
\* a call of getNextRecord has returned
Returned == spc \in {"idle", "closed"} /\ ncalls > 0
\* the end lines at or after the start line of the record being returned
EndLines == {i \in startIdx..Len(fileLines) : EndsWithEquals(fileLines[i])}
FirstEndLine == CHOOSE i \in EndLines : \A j \in EndLines : i <= j
\* the call returned a record that the end of the file cut short
Truncated == Returned /\ startIdx > 0 /\ EndLines = {}

\* C1: a call that read a TAF line while seeking goes on to the next line, so
\* it returns the end-of-stream marker only when no line from where it began
\* reading to the end of the stream is a 12-digit start line.
C1_TafLineSkipped ==
    (Returned /\ ret = <<>>) =>
        \A i \in (callFrom + 1)..Len(fileLines) : ~TwelveDigitStart(fileLines[i])

\* C7: a returned Report is the lines from the start line through the first
\* end line, the trailing '=', whitespace and newline stripped: it never ends
\* with '=' or a whitespace character, and a start line that is also an end
\* line gives a Report of one line.
C7_ReportIsStrippedRecord ==
    (Returned /\ startIdx > 0 /\ EndLines # {}) =>
        LET buf == ConcatLines(fileLines, startIdx, FirstEndLine)
        IN  /\ ret = RStrip(buf, WS \cup {"="})
            /\ ret # <<>> /\ ret[Len(ret)] \notin WS \cup {"="}
            /\ FirstEndLine = startIdx => \A i \in 1..Len(ret) : ret[i] # "\n"

\* C10 as written: the first call returns the end-of-stream marker when no
\* line is a 12-digit start line, and a record cut short by the end of the
\* stream is returned exactly as accumulated.
C10_TruncatedBufferAsIs ==
    /\ (Returned /\ ncalls = 1
          /\ \A i \in 1..Len(fileLines) : ~TwelveDigitStart(fileLines[i]))
       => ret = <<>>
    /\ Truncated => ret = ConcatLines(fileLines, startIdx, Len(fileLines))

\* the steps a call in progress can still take are bounded by this measure
CallMeasure ==
    2 * (Len(fileLines) - filePos)
      + (IF spc = "seek" THEN 2 ELSE IF line # <<>> THEN 1 ELSE 0)
\* a call in progress can take a step that changes the state
CallCanStep ==
    /\ spc = "seek" =>
         LET ln == ReadLineText(fileLines, filePos)
         IN  isRecordStart(ln) \/ SeekGivesUp(ln) \/ filePos < Len(fileLines)
    /\ spc = "accum" => AccumStops(line) \/ line # <<>>

\* a step of a call in progress returns or lowers the measure
CallStepLowersMeasure ==
    spc \in {"seek", "accum"} => (Returned' \/ CallMeasure' < CallMeasure)

\* C10, amended: every call of getNextRecord returns (a call in progress can
\* always step, and each step returns or lowers a measure that is never
\* negative); the first call returns the end-of-stream marker when no line is
\* a 12-digit start line; a record cut short by the end of the stream is
\* returned as accumulated up to the last line, less its trailing '=',
\* newline and space characters.
C10_CallsTerminate ==
    /\ [](((Returned /\ ncalls = 1
              /\ \A i \in 1..Len(fileLines) : ~TwelveDigitStart(fileLines[i]))
           => ret = <<>>)
          /\ (Truncated =>
                /\ filePos = Len(fileLines)
                /\ curRecord = ConcatLines(fileLines, startIdx, Len(fileLines))
                /\ ret = RStrip(curRecord, {"=", "\n", " "}))
          /\ CallMeasure >= 0
          /\ CallCanStep)
    /\ [][CallStepLowersMeasure]_vars

\* a record of two lines or more that the end of the stream cut short, and
\* whose last line lost its newline on the way out
C10_Witness ==
    /\ Truncated
    /\ Len(fileLines) > startIdx
    /\ ret # curRecord

\* ========================================================= group handlers
DigitSeq == <<"0", "1", "2", "3", "4", "5", "6", "7", "8", "9">>
DigitVal(ch) == (CHOOSE i \in 1..10 : DigitSeq[i] = ch) - 1
RECURSIVE ToInt(_)
ToInt(ds) ==
    IF ds = <<>> THEN 0
    ELSE 10 * ToInt(SubSeq(ds, 1, Len(ds) - 1)) + DigitVal(ds[Len(ds)])
IsDigit(ch) == ch \in Digit
\* int(text): surrounding whitespace is ignored
IntOf(s) == ToInt(SelectSeq(s, IsDigit))

\* what a handler gives back: the rendering and the end position ("" for no
\* consumption), or an exception. A rendering is the sequence of the pieces
\* of the formatted string, the empty pieces left out.
NoPos == -1
HRes(text, p) == [raised |-> FALSE, text |-> text, p |-> p]
HNone == [raised |-> FALSE, text |-> <<>>, p |-> NoPos]
HRaise == [raised |-> TRUE, text |-> <<>>, p |-> NoPos]
Piece(x) == IF x = "" THEN <<>> ELSE <<x>>

S0 == Star(Set(WS))
D(n) == Rep(Set(Digit), n, n)

FULLTIME_RE ==
    Cat(<<S0, Grp("year", D(4)), Grp("month", D(2)), Grp("day", D(2)),
          Grp("hour", D(2)), Grp("minute", D(2)), S0>>)

_handle_fulltime(identif, d) ==
    IF ~d.ok THEN HNone
    ELSE HRes(Group(d, "year") \o <<"-">> \o Group(d, "month") \o <<"-">>
                \o Group(d, "day") \o <<" ">> \o Group(d, "hour") \o <<":">>
                \o Group(d, "minute"), d.end)

TYPE_RE ==
    Cat(<<S0, Grp("type", Words(<<<<"M", "E", "T", "A", "R">>, <<"S", "P", "E", "C", "I">>, <<"T", "A", "F">>>>)), S0>>)

_handle_type(identif, d) == IF ~d.ok THEN HNone ELSE HRes(Group(d, "type"), d.end)

ICAO_RE ==
    Cat(<<S0, Opt(Cat(<<Str(<<"C", "O", "R">>), Set(WS)>>)),
          Grp("icao", Rep(Set(WordCh), 4, 4)), S0>>)

_handle_icao(identif, d) == IF ~d.ok THEN HNone ELSE HRes(Group(d, "icao"), d.end)

ISSUANCE_TIME_RE ==
    Cat(<<S0, Grp("day", D(2)), Grp("hour", D(2)), Grp("minute", D(2)),
          Lit("Z"), S0>>)

_handle_issuance_time(identif, d) ==
    IF ~d.ok THEN HNone
    ELSE HRes(Group(d, "day") \o <<"th ">> \o Group(d, "hour") \o <<":">>
                \o Group(d, "minute"), d.end)

WIND_RE ==
    Cat(<<S0, Grp("dir", Alt(<<D(3), Str(<<"V", "R", "B">>)>>)), Grp("speed", D(2)),
          Rep(Cat(<<Lit("G"), Grp("gust", D(2))>>), 0, 1),
          Grp("unit", Words(<<<<"K", "T">>, <<"M", "P", "S">>>>)), S0>>)

_handle_wind(identif, d) ==
    IF ~d.ok THEN HNone
    ELSE LET gust == IF Truthy(Group(d, "gust")) THEN Group(d, "gust") ELSE None
             unit == IF Group(d, "unit") = <<"K", "T">> THEN "knot" ELSE "m/s"
         IN  HRes(<<"direction: ">> \o Group(d, "dir") \o <<"; sustain speed: ">>
                    \o Group(d, "speed") \o <<"; gust: ">> \o gust
                    \o <<"; unit: ", unit>>, d.end)

WIND_VARIABILITY_RE ==
    Cat(<<S0, Grp("lower", D(3)), Lit("V"), Grp("upper", D(3)), S0>>)

_handle_wind_variability(identif, d) ==
    IF ~d.ok THEN HNone
    ELSE HRes(<<"direction varying between: ">> \o Group(d, "lower") \o <<" and ">>
                \o Group(d, "upper") \o <<" degree">>, d.end)

\* the alternation is the outermost operator: the leading \s* belongs to the
\* statute-mile branch alone, the trailing \s* to the meter branch alone
VISIBILITY_RE ==
    Alt(<<Cat(<<S0, Cat(<<Opt(Grp("const", Cat(<<Set(Digit), Set(WS)>>))),
                          Grp("num", Plus(Set(Digit))),
                          Opt(Cat(<<Lit("/"), Grp("den", Plus(Set(Digit)))>>)),
                          Str(<<"S", "M">>)>>)>>),
          Cat(<<Grp("meter", Alt(<<Cat(<<Set(Digit), Set(Digit), Set({"0", "5"}), Lit("0")>>),
                                   Rep(Lit("9"), 4, 4)>>)), S0>>)>>)

\* int(d['den']) if d['den'] else 1
VisibilityDenominator(d) ==
    IF Truthy(Group(d, "den")) THEN IntOf(Group(d, "den")) ELSE 1

\* constant + numerator / denominator is rendered as the exact fraction
_handle_visibility(identif, d) ==
    IF ~d.ok THEN HNone
    ELSE LET constant == IF Truthy(Group(d, "const")) THEN IntOf(Group(d, "const")) ELSE 0
             numerator == IF Truthy(Group(d, "num")) THEN IntOf(Group(d, "num")) ELSE 0
             denominator == VisibilityDenominator(d)
             meter == Group(d, "meter")
         IN  IF Truthy(meter) THEN HRes(meter \o <<" meter">>, d.end)
             ELSE IF denominator = 0 THEN HRaise
             ELSE HRes(<<ToString(constant * denominator + numerator), "/",
                         ToString(denominator), " statute mile">>, d.end)

\* [L|R|C] and [M|P] are character classes: the bar is one of their characters
RUNWAY_RE ==
    Cat(<<S0,
          Grp("runway", Cat(<<Lit("R"), Plus(Set(Digit)), Opt(Set({"L", "|", "R", "C"}))>>)),
          Lit("/"),
          Cat(<<Grp("prefix_low", Opt(Set({"M", "|", "P"}))), Grp("low", D(4)),
                Opt(Cat(<<Grp("vary", Lit("V")),
                          Grp("prefix_high", Opt(Set({"M", "|", "P"}))),
                          Grp("high", D(4))>>)),
                Opt(Grp("unit", Str(<<"F", "T">>))),
                Opt(Lit("/")),
                Grp("trend", Opt(Set({"N", "D", "U"})))>>),
          S0>>)

RunwayTranslate ==
    (<<"M">> :> "less than") @@ (<<"P">> :> "greater than") @@ (<<"N">> :> "static trend")
    @@ (<<"D">> :> "decreasing trend") @@ (<<"U">> :> "increasing trend")
    @@ (<<>> :> "") @@ (None :> "")

_handle_runway(identif, d) ==
    IF ~d.ok THEN HNone
    ELSE IF \E k \in {Group(d, "trend"), Group(d, "prefix_low"), Group(d, "prefix_high")} :
               k \notin DOMAIN RunwayTranslate
         THEN HRaise
         ELSE LET runway == Group(d, "runway")
                  vary == Truthy(Group(d, "vary"))
                  unit == IF Truthy(Group(d, "unit")) THEN "ft" ELSE "meter"
                  trend == RunwayTranslate[Group(d, "trend")]
                  prefix_low == RunwayTranslate[Group(d, "prefix_low")]
                  prefix_high == RunwayTranslate[Group(d, "prefix_high")]
              IN  IF vary
                  THEN HRes(<<"runway: ">> \o runway \o <<"; visibility: from ">>
                              \o Piece(prefix_low) \o <<" ">> \o Group(d, "low")
                              \o <<"  to ">> \o Piece(prefix_high) \o <<" ">>
                              \o Group(d, "high") \o <<"; unit: ", unit, "; with ">>
                              \o Piece(trend), d.end)
                  ELSE HRes(<<"runway: ">> \o runway \o <<"; visibility: ">>
                              \o Piece(prefix_low) \o <<" ">> \o Group(d, "low")
                              \o <<"; unit: ", unit, "; with ">> \o Piece(trend), d.end)

WEATHER_RE ==
    Cat(<<S0,
          Grp("int", Opt(Alt(<<Lit("-"), Lit("+")>>))),
          Grp("desc", Opt(Words(<<<<"B", "C">>, <<"B", "L">>, <<"D", "R">>, <<"F", "Z">>, <<"M", "I">>, <<"P", "R">>, <<"S", "H">>, <<"T", "S">>>>))),
          Grp("prec", Star(Words(<<<<"D", "Z">>, <<"G", "R">>, <<"G", "S">>, <<"I", "C">>, <<"P", "L">>, <<"R", "A">>, <<"S", "G">>, <<"S", "N">>, <<"U", "P">>>>))),
          Opt(Grp("obsc", Words(<<<<"B", "R">>, <<"D", "U">>, <<"F", "G">>, <<"F", "U">>, <<"H", "Z">>, <<"P", "Y">>, <<"S", "A">>, <<"V", "A">>>>))),
          Opt(Grp("other", Words(<<<<"D", "S">>, <<"F", "C">>, <<"P", "O">>, <<"S", "Q">>, <<"S", "S">>>>))),
          S0>>)

WEATHER_INT ==
    (<<"-">> :> "light") @@ (<<"+">> :> "heavy") @@ (<<"-", "V", "C">> :> "nearby light")
    @@ (<<"+", "V", "C">> :> "nearby heavy") @@ (<<"V", "C">> :> "nearby") @@ (<<>> :> "") @@ (None :> "")
WEATHER_DESC ==
    (<<"B", "C">> :> "patches of") @@ (<<"B", "L">> :> "blowing") @@ (<<"D", "R">> :> "low drifting")
    @@ (<<"F", "Z">> :> "freezing") @@ (<<"M", "I">> :> "shallow") @@ (<<"P", "R">> :> "partial")
    @@ (<<"S", "H">> :> "showers") @@ (<<"T", "S">> :> "thunderstorm") @@ (<<>> :> "") @@ (None :> "")
WEATHER_PREC ==
    (<<"D", "Z">> :> "drizzle") @@ (<<"G", "R">> :> "hail") @@ (<<"G", "S">> :> "snow pellets")
    @@ (<<"I", "C">> :> "ice crystals") @@ (<<"P", "L">> :> "ice pellets") @@ (<<"R", "A">> :> "rain")
    @@ (<<"S", "G">> :> "snow grains") @@ (<<"S", "N">> :> "snow") @@ (<<"U", "P">> :> "unknown precipitation")
    @@ (<<>> :> "") @@ (None :> "")
WEATHER_OBSC ==
    (<<"B", "R">> :> "mist") @@ (<<"F", "G">> :> "fog") @@ (<<"F", "U">> :> "smoke") @@ (<<"V", "A">> :> "volcanic ash")
    @@ (<<"D", "U">> :> "dust") @@ (<<"S", "A">> :> "sand") @@ (<<"H", "Z">> :> "haze") @@ (<<"P", "Y">> :> "spray")
    @@ (<<>> :> "") @@ (None :> "")
WEATHER_OTHER ==
    (<<"P", "O">> :> "san whirls") @@ (<<"S", "Q">> :> "squalls") @@ (<<"F", "C">> :> "funnel cloud")
    @@ (<<"S", "S">> :> "sandstorm") @@ (<<"D", "S">> :> "dust storm") @@ (<<>> :> "") @@ (None :> "")

RECURSIVE Chunks(_, _)
\* [s[i:i+n] for i in range(0, len(s), n)]
Chunks(s, n) ==
    IF s = <<>> THEN <<>>
    ELSE IF Len(s) <= n THEN <<s>>
    ELSE <<SubSeq(s, 1, n)>> \o Chunks(SubSeq(s, n + 1, Len(s)), n)

RECURSIVE Precipitation(_)
\* precitation += WEATHER_PREC[p] + ";" for each chunk
Precipitation(chunks) ==
    IF chunks = <<>> THEN <<>>
    ELSE Piece(WEATHER_PREC[chunks[1]]) \o <<";">> \o Precipitation(Tail(chunks))

RECURSIVE StripPieces(_)
\* str.strip() of a rendering: blank pieces go from both ends
StripPieces(t) ==
    IF t # <<>> /\ t[1] = " " THEN StripPieces(Tail(t))
    ELSE IF t # <<>> /\ t[Len(t)] = " " THEN StripPieces(SubSeq(t, 1, Len(t) - 1))
    ELSE t

\* (mutant) the rendering returned without the strip
WeatherRenderingUnstripped(t) == t
\* translation.strip()
WeatherRendering(t) == StripPieces(t)

_handle_weather(identif, d) ==
    IF ~d.ok \/ d.start = d.end THEN HNone
    ELSE IF \/ Group(d, "int") \notin DOMAIN WEATHER_INT
            \/ Group(d, "desc") \notin DOMAIN WEATHER_DESC
            \/ \E i \in 1..Len(Chunks(Group(d, "prec"), 2)) :
                   Chunks(Group(d, "prec"), 2)[i] \notin DOMAIN WEATHER_PREC
            \/ Group(d, "obsc") \notin DOMAIN WEATHER_OBSC
            \/ Group(d, "other") \notin DOMAIN WEATHER_OTHER
         THEN HRaise
         ELSE LET intensity == WEATHER_INT[Group(d, "int")]
                  descriptor == WEATHER_DESC[Group(d, "desc")]
                  prec == IF Truthy(Group(d, "prec")) THEN Chunks(Group(d, "prec"), 2) ELSE <<>>
                  precitation == Precipitation(prec)
                  obscuration == WEATHER_OBSC[Group(d, "obsc")]
                  other == WEATHER_OTHER[Group(d, "other")]
                  translation == Piece(intensity) \o <<" ">> \o Piece(descriptor) \o <<" ">>
                                   \o precitation \o <<" ">> \o Piece(obscuration)
                                   \o <<" ">> \o Piece(other)
              IN  HRes(WeatherRendering(translation), d.end)

CLOUDS_RE ==
    Cat(<<S0, Grp("cover", Words(<<<<"S", "K", "C">>, <<"F", "E", "W">>, <<"S", "C", "T">>, <<"B", "K", "N">>, <<"O", "V", "C">>, <<"V", "V">>>>)),
          Grp("height", Rep(Set(Digit), 2, 4)), S0>>)

CLOUDS_INDI ==
    (<<"S", "K", "C">> :> "sky clear") @@ (<<"F", "E", "W">> :> "few") @@ (<<"S", "C", "T">> :> "scattered")
    @@ (<<"B", "K", "N">> :> "broken") @@ (<<"O", "V", "C">> :> "overcast") @@ (<<"V", "V">> :> "vertical visibility")

_handle_clouds(identif, d) ==
    IF ~d.ok THEN HNone
    ELSE IF Group(d, "cover") \notin DOMAIN CLOUDS_INDI THEN HRaise
    ELSE HRes(<<CLOUDS_INDI[Group(d, "cover")], " ">> \o Group(d, "height"), d.end)

TEMP_RE ==
    Cat(<<S0, Grp("minus_f1", Opt(Lit("M"))), Grp("temp", D(2)), Lit("/"),
          Grp("minus_f2", Opt(Lit("M"))), Grp("dewpoint", D(2)), S0>>)

_handle_temp(identif, d) ==
    IF ~d.ok THEN HNone
    ELSE LET minus_f1 == IF Truthy(Group(d, "minus_f1")) THEN -1 ELSE 1
             minus_f2 == IF Truthy(Group(d, "minus_f2")) THEN -1 ELSE 1
             temp == minus_f1 * IntOf(Group(d, "temp"))
             dewpoint == minus_f2 * IntOf(Group(d, "dewpoint"))
         IN  HRes(<<"temperature: ", ToString(temp), "; dewpoint: ", ToString(dewpoint)>>,
                  d.end)

ALTIMETER_RE ==
    Cat(<<S0, Opt(Grp("unit", Alt(<<Lit("A"), Lit("Q")>>))),
          Grp("press", Rep(Set(Digit), 3, 4)), S0>>)

_handle_altimeter(identif, d) ==
    IF ~d.ok THEN HNone
    ELSE LET unit == IF Group(d, "unit") = <<"A">> THEN "inches" ELSE "hPa"
             press == IntOf(Group(d, "press"))
         IN  HRes(<<"sea level pressure: ", ToString(press), "; unit: ", unit>>, d.end)

\* ================================================ sequential group decoder
\* self.handlers: (pattern, handler, identif, repeat), in the order of the format
handlers ==
    << [pattern |-> FULLTIME_RE, handler |-> "fulltime", identif |-> "fulltime", repeat |-> FALSE],
       [pattern |-> TYPE_RE, handler |-> "type", identif |-> "type", repeat |-> FALSE],
       [pattern |-> ICAO_RE, handler |-> "icao", identif |-> "icao", repeat |-> FALSE],
       [pattern |-> ISSUANCE_TIME_RE, handler |-> "issuance_time", identif |-> "issuancetime", repeat |-> FALSE],
       [pattern |-> WIND_RE, handler |-> "wind", identif |-> "wind", repeat |-> FALSE],
       [pattern |-> WIND_VARIABILITY_RE, handler |-> "wind_variability", identif |-> "variability", repeat |-> FALSE],
       [pattern |-> VISIBILITY_RE, handler |-> "visibility", identif |-> "visibility", repeat |-> TRUE],
       [pattern |-> RUNWAY_RE, handler |-> "runway", identif |-> "runway", repeat |-> TRUE],
       [pattern |-> WEATHER_RE, handler |-> "weather", identif |-> "weather", repeat |-> TRUE],
       [pattern |-> CLOUDS_RE, handler |-> "clouds", identif |-> "clouds", repeat |-> TRUE],
       [pattern |-> TEMP_RE, handler |-> "temp", identif |-> "temp", repeat |-> FALSE],
       [pattern |-> ALTIMETER_RE, handler |-> "altimeter", identif |-> "altimeter", repeat |-> TRUE] >>

ngroup == Len(handlers)

\* handler(identif, d)
CallHandler(h, identif, d) ==
    CASE h = "fulltime" -> _handle_fulltime(identif, d)
      [] h = "type" -> _handle_type(identif, d)
      [] h = "icao" -> _handle_icao(identif, d)
      [] h = "issuance_time" -> _handle_issuance_time(identif, d)
      [] h = "wind" -> _handle_wind(identif, d)
      [] h = "wind_variability" -> _handle_wind_variability(identif, d)
      [] h = "visibility" -> _handle_visibility(identif, d)
      [] h = "runway" -> _handle_runway(identif, d)
      [] h = "weather" -> _handle_weather(identif, d)
      [] h = "clouds" -> _handle_clouds(identif, d)
      [] h = "temp" -> _handle_temp(identif, d)
      [] h = "altimeter" -> _handle_altimeter(identif, d)

\* one pass of the inner loop: d = pattern.match(metarStr, pos=pos) and
\* text, p = handler(identif, d)
Attempt(s, g, at) ==
    CallHandler(handlers[g + 1].handler, handlers[g + 1].identif,
                ReMatch(handlers[g + 1].pattern, s, at))

\* message.setdefault(identif, "")
SetDefault(msg, k) == IF k \in DOMAIN msg THEN msg ELSE (k :> <<>>) @@ msg

\* the group stays in the inner loop after a match
Repeats(g) == handlers[g + 1].repeat
\* an error is recorded for a group whose pass gave no text
RecordsError(msg, g) == msg[handlers[g + 1].identif] = <<>>
\* (mutant) pos = p taken before the test of the text
CursorTakenBeforeTest(at, p) == IF p # NoPos THEN p ELSE at
\* the cursor after a pass that gave no text: the break leaves pos alone
CursorAfterNoText(at, p) == at
\* (mutant) the end of the match counted from its start
CursorRelativeEnd(at, p) == p - at
\* the cursor after a pass that gave text: pos = p
CursorAfterText(at, p) == p

\* ---- the reports decoded: up to MaxTokens groups in the order of the format
TokFulltime == <<"2", "0", "1", "9", "0", "1", "0", "1", "0", "0", "0", "0">>
TokType == <<"M", "E", "T", "A", "R">>
TokIcao == <<"Z", "B", "A", "A">>
TokIssuance == <<"0", "1", "0", "0", "0", "0", "Z">>
TokWind == <<"2", "6", "0", "0", "2", "M", "P", "S">>
TokVariability == <<"2", "0", "0", "V", "3", "0", "0">>
TokMeter == <<"9", "9", "9", "9">>
TokMile == <<"3", "S", "M">>
TokMileZero == <<"1", "/", "0", "S", "M">>
TokRunway == <<"R", "2", "8", "L", "/", "2", "5", "0", "1", "V", "3", "0", "0", "0", "F", "T", "/", "D">>
TokRunwayBar == <<"R", "2", "8", "/", "|", "1", "0", "0", "0">>
TokWeather == <<"-", "R", "A">>
TokClouds == <<"B", "K", "N", "0", "1", "5">>
TokTemp == <<"0", "1", "/", "M", "0", "1">>
TokAltimeter == <<"Q", "1", "0", "1", "1">>
DecodeTokens ==
    <<TokFulltime, TokType, TokIcao, TokIssuance, TokWind, TokVariability, TokMeter,
      TokMile, TokMileZero, TokRunway, TokRunwayBar, TokWeather, TokClouds, TokTemp,
      TokAltimeter>>

RECURSIVE JoinTokens(_, _, _)
\* the tokens toks[ix[1]], toks[ix[2]], ... with one space between them
JoinTokens(toks, ix, i) ==
    IF i > Len(ix) THEN <<>>
    ELSE toks[ix[i]] \o (IF i < Len(ix) THEN <<" ">> ELSE <<>>) \o JoinTokens(toks, ix, i + 1)

OrderedPicks(n, k) ==
    {ix \in [1..k -> 1..n] : \A i \in 1..(k - 1) : ix[i] <= ix[i + 1]}
DecodeReports ==
    UNION {{JoinTokens(DecodeTokens, ix, 1) : ix \in OrderedPicks(Len(DecodeTokens), k)} :
           k \in 0..MaxTokens}

\* decodeMetar(metarStr) has set igroup = 0, message = {}, pos = 0 and
\* errorMsg = "". message maps a group to the fields decoded for it, errorMsg
\* is the sequence of its entries, and tried lists the groups of the passes made.
InitDec ==
    /\ metarStr \in DecodeReports
    /\ igroup = 0 /\ pos = 0 /\ message = NoCaps /\ errorMsg = <<>>
    /\ dpc = "run" /\ tried = <<>>
    /\ SegIdle /\ VmcIdle

\* "if not text": the error is recorded for a group with no field, and the
\* break and igroup += 1 go on to the next group
Decode_NoText ==
    /\ dpc = "run" /\ igroup < ngroup
    /\ LET r == Attempt(metarStr, igroup, pos)
           identif == handlers[igroup + 1].identif
           msg == SetDefault(message, identif)
       IN  /\ ~r.raised
           /\ r.text = <<>>
           /\ errorMsg' = IF RecordsError(msg, igroup)
                          THEN Append(errorMsg, <<identif, ":  no text matched;">>)
                          ELSE errorMsg
           /\ message' = msg
           /\ pos' = CursorAfterNoText(pos, r.p)
    /\ igroup' = igroup + 1
    /\ tried' = Append(tried, igroup)
    /\ UNCHANGED <<metarStr, dpc, segVars, vmcVars>>

\* text matched: pos = p and the field is added; a group that does not
\* repeat goes on to the next group
Decode_Text ==
    /\ dpc = "run" /\ igroup < ngroup
    /\ LET r == Attempt(metarStr, igroup, pos)
           identif == handlers[igroup + 1].identif
           msg == SetDefault(message, identif)
       IN  /\ ~r.raised
           /\ r.text # <<>>
           /\ pos' = CursorAfterText(pos, r.p)
           /\ message' = [msg EXCEPT ![identif] = Append(@, <<identif, ": ">> \o r.text \o <<";">>)]
    /\ igroup' = IF Repeats(igroup) THEN igroup ELSE igroup + 1
    /\ tried' = Append(tried, igroup)
    /\ UNCHANGED <<metarStr, errorMsg, dpc, segVars, vmcVars>>

\* the handler raised: the exception leaves decodeMetar
Decode_Raise ==
    /\ dpc = "run" /\ igroup < ngroup
    /\ Attempt(metarStr, igroup, pos).raised
    /\ message' = SetDefault(message, handlers[igroup + 1].identif)
    /\ tried' = Append(tried, igroup)
    /\ dpc' = "raised"
    /\ UNCHANGED <<metarStr, igroup, pos, errorMsg, segVars, vmcVars>>

\* return message, errorMsg
Decode_Return ==
    /\ dpc = "run" /\ igroup = ngroup
    /\ dpc' = "done"
    /\ UNCHANGED <<metarStr, igroup, pos, message, errorMsg, tried, segVars, vmcVars>>

NextDec ==
    \/ Decode_NoText
    \/ Decode_Text
    \/ Decode_Raise
    \/ Decode_Return

DecSpec == InitDec /\ [][NextDec]_vars

\* --------------------------------------------- decoder: what the claims say
Identifs == {handlers[i].identif : i \in 1..ngroup}
GroupOf(k) == CHOOSE g \in 0..(ngroup - 1) : handlers[g + 1].identif = k
\* the Decoded Fields of a group so far
ResultOf(msg, k) == IF k \in DOMAIN msg THEN msg[k] ELSE <<>>
\* the groups the error list names
ErrorGroups == {errorMsg[i][1] : i \in 1..Len(errorMsg)}
\* the groups of the table marked repeatable, by name
RepeatableGroups == {"visibility", "runway", "weather", "clouds", "altimeter"}

\* C2: a repeatable group that matched zero times has an empty result and no
\* entry in the error list; only a mandatory group with zero Decoded Fields
\* has an entry.
C2_NoErrorForRepeatable ==
    /\ \A k \in RepeatableGroups :
         (GroupOf(k) < igroup /\ ResultOf(message, k) = <<>>) => k \notin ErrorGroups
    /\ \A k \in ErrorGroups : k \notin RepeatableGroups /\ ResultOf(message, k) = <<>>

\* C3: decodeMetar returns for every report: no handler raises on a match of
\* its own pattern.
C3_DecodeNeverRaises == dpc # "raised"

\* a pass was made, it raised nothing and it added no Decoded Field
FailedPass ==
    /\ tried' # tried
    /\ dpc' = "run"
    /\ \A k \in Identifs : Len(ResultOf(message', k)) = Len(ResultOf(message, k))
\* a failed pass leaves the cursor and every result alone and goes on to the
\* next group of the table
FailedPassFrame ==
    FailedPass =>
        /\ pos' = pos
        /\ \A k \in Identifs : ResultOf(message', k) = ResultOf(message, k)
        /\ igroup' = igroup + 1
        /\ metarStr' = metarStr

\* C8: a failed match attempt changes nothing but the error list: the cursor
\* and every group's result stay as they were and the decode goes on with the
\* next group; the groups are attempted in table order, and a decode that
\* returns has attempted every group of the table.
C8_FailedPassChangesNothing ==
    /\ [][FailedPassFrame]_vars
    /\ [](/\ \A i \in 1..(Len(tried) - 1) : tried[i] <= tried[i + 1]
          /\ {tried[i] : i \in 1..Len(tried)} \subseteq 0..igroup
          /\ 0..(igroup - 1) \subseteq {tried[i] : i \in 1..Len(tried)}
          /\ dpc = "done" => {tried[i] : i \in 1..Len(tried)} = 0..(ngroup - 1))

\* a decode that returned after a statute-mile visibility, a weather pass
\* that matched only the blank after it and failed, and a cloud layer decoded
\* from the cursor the weather pass left alone
C8_Witness ==
    /\ dpc = "done"
    /\ "fulltime" \in ErrorGroups /\ "weather" \in ErrorGroups
    /\ ResultOf(message, "visibility") # <<>>
    /\ ResultOf(message, "clouds") # <<>>
    /\ ReMatch(WEATHER_RE, metarStr, 3).end > 3

\* C9: the cursor starts at 0 and never decreases, and a group that is not
\* repeatable contributes at most one Decoded Field.
C9_CursorMonotone ==
    /\ pos = 0
    /\ [][pos' >= pos]_vars
    /\ [](\A k \in Identifs \ RepeatableGroups : Len(ResultOf(message, k)) <= 1)

\* a decode that returned with the cursor moved, one station identifier and
\* two cloud layers
C9_Witness ==
    /\ dpc = "done"
    /\ pos > 0
    /\ Len(ResultOf(message, "icao")) = 1
    /\ Len(ResultOf(message, "clouds")) = 2

RECURSIVE FieldCount(_, _)
\* the Decoded Fields of the groups g..ngroup of the table, counted
FieldCount(msg, g) ==
    IF g > ngroup THEN 0
    ELSE Len(ResultOf(msg, handlers[g].identif)) + FieldCount(msg, g + 1)
\* a pass was made and it was accepted as a success: a field was added
SuccessfulPass == tried' # tried /\ FieldCount(message', 1) > FieldCount(message, 1)
\* the characters a successful pass consumed hold one that is not whitespace
SuccessAdvances ==
    SuccessfulPass =>
        /\ pos' > pos
        /\ \E i \in (pos + 1)..pos' : metarStr[i] \notin WS
\* the pattern of a repeatable group matches nothing but whitespace, or
\* nothing at all, at the cursor
BlankMatchAtCursor ==
    /\ dpc = "run" /\ igroup < ngroup /\ Repeats(igroup)
    /\ LET d == ReMatch(handlers[igroup + 1].pattern, metarStr, pos)
       IN  d.ok /\ \A i \in (pos + 1)..d.end : metarStr[i] \in WS
\* a pass of a repeatable group over a blank match adds no field and leaves
\* the group
BlankMatchFails ==
    BlankMatchAtCursor =>
        /\ FieldCount(message', 1) = FieldCount(message, 1)
        /\ igroup' = igroup + 1
\* the steps a decode can still take are bounded by this measure
DecodeMeasure ==
    (ngroup - igroup) + (Len(metarStr) - pos) + (IF dpc = "run" THEN 1 ELSE 0)
\* a step of a running decode lowers the measure
DecodeStepLowersMeasure == dpc = "run" => DecodeMeasure' < DecodeMeasure

\* C11: decodeMetar terminates for every report: an attempt accepted as a
\* success moves the cursor forward over at least one character that is not
\* whitespace, a repeatable group (weather included) never succeeds on a
\* zero-width or whitespace-only match, the successes of a decode number at
\* most the length of the report, and each step of a running decode lowers a
\* measure that is never negative.
C11_SuccessAdvancesCursor ==
    /\ [][SuccessAdvances]_vars
    /\ [][BlankMatchFails]_vars
    /\ [][DecodeStepLowersMeasure]_vars
    /\ [](/\ FieldCount(message, 1) <= pos
          /\ pos <= Len(metarStr)
          /\ igroup \in 0..ngroup
          /\ DecodeMeasure >= 0)

\* a decode that returned with two weather fields after a statute-mile
\* visibility, each of them a step forward of the cursor, and with the
\* cursor at the end of the report, where the weather pattern matches the
\* empty string and the weather group stopped
C11_Witness ==
    /\ dpc = "done"
    /\ Len(ResultOf(message, "weather")) = 2
    /\ ResultOf(message, "visibility") # <<>>
    /\ pos = Len(metarStr)
    /\ LET d == ReMatch(WEATHER_RE, metarStr, pos) IN d.ok /\ d.end = pos

\* ================================================== VMC minima classifier
\* the three patterns compiled in vmcMinima
CAVOK_RE == Cat(<<Set(WS), Str(<<"C", "A", "V", "O", "K">>), Set(WS)>>)
CEILING_RE ==
    Cat(<<S0, Grp("1", Words(<<<<"B", "K", "N">>, <<"O", "V", "C">>>>)), Grp("2", Rep(Set(Digit), 2, 4)), S0>>)
VMC_VISIBILITY_RE ==
    Alt(<<Cat(<<Set(WS), Cat(<<Opt(Grp("const", Cat(<<Set(Digit), Set(WS)>>))),
                               Grp("num", Plus(Set(Digit))),
                               Opt(Cat(<<Lit("/"), Grp("den", Plus(Set(Digit)))>>)),
                               Str(<<"S", "M">>)>>), Set(WS)>>),
          Cat(<<Set(WS),
                Grp("meter", Alt(<<Cat(<<Set(Digit), Set(Digit), Set({"0", "5"}), Lit("0")>>),
                                   Rep(Lit("9"), 4, 4)>>)),
                Set(WS)>>)>>)

RECURSIVE ReFindAllFrom(_, _, _)
\* pattern.findall(s): the matches from left to right, none overlapping
ReFindAllFrom(r, s, at) ==
    LET d == ReSearchFrom(r, s, at)
    IN  IF ~d.ok THEN <<>>
        ELSE <<d>> \o ReFindAllFrom(r, s, IF d.end > d.start THEN d.end ELSE d.end + 1)
ReFindAll(r, s) == ReFindAllFrom(r, s, 0)

\* the ceiling threshold, in hundreds of feet, and the visibility thresholds
CeilingMin == 15
MeterMin == 5000
MileMin == 3

\* "ceiling": no BKN/OVC group, or the lowest of them at CeilingMin or above
VmcCeiling(s) ==
    LET ceilingRes == ReFindAll(CEILING_RE, s)
        ceilingList == {IntOf(Group(ceilingRes[i], "2")) : i \in 1..Len(ceilingRes)}
    IN  ceilingRes = <<>> \/ \A h \in ceilingList : h >= CeilingMin

\* "visibility": the verdict of the first visibility group found, False when
\* there is none; the division raises on a zero denominator
VmcVisibility(s) ==
    LET d == ReSearch(VMC_VISIBILITY_RE, s)
        constant == IF Truthy(Group(d, "const")) THEN IntOf(Group(d, "const")) ELSE 0
        numerator == IF Truthy(Group(d, "num")) THEN IntOf(Group(d, "num")) ELSE 0
        denominator == IF Truthy(Group(d, "den")) THEN IntOf(Group(d, "den")) ELSE 1
        meter == IF Truthy(Group(d, "meter")) THEN IntOf(Group(d, "meter")) ELSE 0
    IN  IF ~d.ok THEN [raised |-> FALSE, value |-> FALSE]
        ELSE IF meter # 0 THEN [raised |-> FALSE, value |-> meter >= MeterMin]
        ELSE IF denominator = 0 THEN [raised |-> TRUE, value |-> FALSE]
        ELSE [raised |-> FALSE,
              value |-> constant * denominator + numerator >= MileMin * denominator]

PyBool(b) == IF b THEN "True" ELSE "False"

\* ---- the reports classified: up to MaxVmcTokens groups in any order
VmcTokens ==
    <<<<"Z", "B", "A", "A">>, <<"C", "A", "V", "O", "K">>, <<"9", "9", "9", "9">>, <<"4", "0", "0", "0">>, <<"3", "S", "M">>, <<"2", "S", "M">>, <<"1", "/", "0", "S", "M">>, <<"B", "K", "N", "0", "1", "5">>, <<"O", "V", "C", "0", "1", "0">>, <<"F", "E", "W", "0", "0", "5">>>>
VmcReports ==
    UNION {{JoinTokens(VmcTokens, ix, 1) : ix \in [1..k -> 1..Len(VmcTokens)]} :
           k \in 0..MaxVmcTokens}

\* vmcMinima(metarStr) has been called
InitVmc ==
    /\ vmcStr \in VmcReports
    /\ verdict = "pending"
    /\ SegIdle /\ DecIdle

\* the CAVOK pattern is found: return True
Vmc_Cavok ==
    /\ verdict = "pending"
    /\ ReSearch(CAVOK_RE, vmcStr).ok
    /\ verdict' = "True"
    /\ UNCHANGED <<vmcStr, segVars, decVars>>

\* return ceiling and visibility
Vmc_Verdict ==
    /\ verdict = "pending"
    /\ ~ReSearch(CAVOK_RE, vmcStr).ok
    /\ ~VmcVisibility(vmcStr).raised
    /\ verdict' = PyBool(VmcCeiling(vmcStr) /\ VmcVisibility(vmcStr).value)
    /\ UNCHANGED <<vmcStr, segVars, decVars>>

\* the division by a zero denominator raises
Vmc_Raise ==
    /\ verdict = "pending"
    /\ ~ReSearch(CAVOK_RE, vmcStr).ok
    /\ VmcVisibility(vmcStr).raised
    /\ verdict' = "raised"
    /\ UNCHANGED <<vmcStr, segVars, decVars>>

NextVmc ==
    \/ Vmc_Cavok
    \/ Vmc_Verdict
    \/ Vmc_Raise

VmcSpec == InitVmc /\ [][NextVmc]_vars

\* ------------------------------------------ classifier: what the claims say
RECURSIVE SplitWs(_, _)
\* the whitespace-separated tokens of a text
SplitWs(s, cur) ==
    IF s = <<>> THEN (IF cur = <<>> THEN <<>> ELSE <<cur>>)
    ELSE IF s[1] \in WS
         THEN (IF cur = <<>> THEN <<>> ELSE <<cur>>) \o SplitWs(Tail(s), <<>>)
         ELSE SplitWs(Tail(s), Append(cur, s[1]))
TokensOf(s) == SplitWs(s, <<>>)
HasCavokToken(s) == \E i \in 1..Len(TokensOf(s)) : TokensOf(s)[i] = <<"C", "A", "V", "O", "K">>

\* a token that is a whole BKN/OVC group, a meter group, a statute-mile group
CeilingTokenRe == Cat(<<Words(<<<<"B", "K", "N">>, <<"O", "V", "C">>>>), Grp("h", Rep(Set(Digit), 2, 4)), Eol>>)
MeterTokenRe ==
    Cat(<<Grp("m", Alt(<<Cat(<<Set(Digit), Set(Digit), Set({"0", "5"}), Lit("0")>>),
                         Rep(Lit("9"), 4, 4)>>)), Eol>>)
MileTokenRe ==
    Cat(<<Grp("n", Plus(Set(Digit))), Opt(Cat(<<Lit("/"), Grp("d", Plus(Set(Digit)))>>)),
          Str(<<"S", "M">>), Eol>>)
IsTok(re, tok) == tok # <<>> /\ tok[Len(tok)] # "\n" /\ ReMatch(re, tok, 0).ok
CeilingHeights(s) ==
    {IntOf(Group(ReMatch(CeilingTokenRe, TokensOf(s)[i], 0), "h")) :
        i \in {j \in 1..Len(TokensOf(s)) : IsTok(CeilingTokenRe, TokensOf(s)[j])}}
CeilingCheck(s) == \A h \in CeilingHeights(s) : h >= 15
VisibilityIdx(s) ==
    {j \in 1..Len(TokensOf(s)) :
        IsTok(MeterTokenRe, TokensOf(s)[j]) \/ IsTok(MileTokenRe, TokensOf(s)[j])}
\* the check on the first visibility group of the text
VisibilityCheck(s) ==
    /\ VisibilityIdx(s) # {}
    /\ LET j == CHOOSE j \in VisibilityIdx(s) : \A k \in VisibilityIdx(s) : j <= k
           tok == TokensOf(s)[j]
           dm == ReMatch(MileTokenRe, tok, 0)
           den == IF Truthy(Group(dm, "d")) THEN IntOf(Group(dm, "d")) ELSE 1
       IN  IF IsTok(MeterTokenRe, tok) THEN IntOf(tok) >= 5000
           ELSE den # 0 /\ IntOf(Group(dm, "n")) >= 3 * den

\* C4: vmcMinima never fails: every report gets a verdict.
C4_VmcNeverFails == verdict # "raised"

\* C5: a report that holds the token CAVOK anywhere, first and last token
\* included, is classified True.
C5_CavokMeetsMinima ==
    (verdict # "pending" /\ HasCavokToken(vmcStr)) => verdict = "True"

\* C6: without CAVOK the verdict is the ceiling check and the visibility
\* check, wherever the visibility group sits in the report.
C6_VerdictIsCeilingAndVisibility ==
    (verdict # "pending" /\ ~HasCavokToken(vmcStr)) =>
        verdict = PyBool(CeilingCheck(vmcStr) /\ VisibilityCheck(vmcStr))

====
